---- MODULE Spec2Model ----
(***************************************************************************)
(* Model of boatware/domainer: FromString (src/main.go) and the older      *)
(* FromString that does no address lookup (src/unnamed/part_000).          *)
(*                                                                         *)
(* A Go string is modelled as a sequence of one-character strings, so      *)
(* that prefix tests, index searches and slices are computed character by  *)
(* character as the strings package computes them.                         *)
(***************************************************************************)
EXTENDS Integers, Sequences, FiniteSets, TLC

\* ------------------------------------------------------------------ bounds

\* Longest authority in the exhaustively enumerated authorities.
MaxAuthorityLen == 6

\* Longest chain of "http://" / "https://" prefixes put in front of an input.
MaxPrefixes == 2
\* Longest text that follows the first '/' in the exhaustively enumerated tails.
MaxTailLen == 4

\* ------------------------------------------------- package strings, strconv

\* strings.HasPrefix(s, p)
HasPrefix(s, p) == Len(s) >= Len(p) /\ SubSeq(s, 1, Len(p)) = p

\* strings.TrimPrefix(s, p)
TrimPrefix(s, p) == IF HasPrefix(s, p) THEN SubSeq(s, Len(p) + 1, Len(s)) ELSE s

\* strings.HasSuffix(s, p)
HasSuffix(s, p) == Len(s) >= Len(p) /\ SubSeq(s, Len(s) - Len(p) + 1, Len(s)) = p

\* strings.TrimSuffix(s, p)
TrimSuffix(s, p) == IF HasSuffix(s, p) THEN SubSeq(s, 1, Len(s) - Len(p)) ELSE s

\* strings.Index(s, c) for a one-character c: 0-based, -1 when absent.
Index(s, c) ==
    IF \E i \in 1..Len(s) : s[i] = c
    THEN (CHOOSE i \in 1..Len(s) : s[i] = c /\ \A j \in 1..(i - 1) : s[j] # c) - 1
    ELSE -1

\* The Go slice expression s[lo:hi] (0-based, hi exclusive).
Slice(s, lo, hi) == SubSeq(s, lo + 1, hi)

\* strings.Split(s, c) for a one-character separator c.
RECURSIVE Split(_, _)
Split(s, c) ==
    LET i == Index(s, c)
    IN  IF i = -1 THEN <<s>>
        ELSE <<Slice(s, 0, i)>> \o Split(Slice(s, i + 1, Len(s)), c)

\* strings.Join(parts, c) for a one-character separator c.
RECURSIVE Join(_, _)
Join(parts, c) ==
    IF Len(parts) = 0 THEN << >>
    ELSE IF Len(parts) = 1 THEN parts[1]
    ELSE parts[1] \o <<c>> \o Join(Tail(parts), c)

DigitValue(d) ==
    CASE d = "0" -> 0 [] d = "1" -> 1 [] d = "2" -> 2 [] d = "3" -> 3
      [] d = "4" -> 4 [] d = "5" -> 5 [] d = "6" -> 6 [] d = "7" -> 7
      [] d = "8" -> 8 [] d = "9" -> 9 [] OTHER -> -1

RECURSIVE DecimalValue(_)
DecimalValue(s) ==
    IF Len(s) = 0 THEN 0
    ELSE 10 * DecimalValue(SubSeq(s, 1, Len(s) - 1)) + DigitValue(s[Len(s)])

\* strconv.Atoi(s): an optional sign, then one or more decimal digits.
\* (Every text of the model is far shorter than the 19 digits at which
\* Atoi reports a range error.)
Atoi(s) ==
    LET signed == Len(s) > 0 /\ s[1] \in {"+", "-"}
        digits == IF signed THEN Tail(s) ELSE s
        ok     == Len(digits) > 0 /\ \A i \in 1..Len(digits) : DigitValue(digits[i]) >= 0
    IN  IF ~ok THEN [ok |-> FALSE, val |-> 0]
        ELSE [ok |-> TRUE,
              val |-> IF signed /\ s[1] = "-" THEN 0 - DecimalValue(digits)
                      ELSE DecimalValue(digits)]

\* ------------------------------------------------------------ URL, Query

\* The empty Go string.
Empty == << >>

HTTP == <<"h", "t", "t", "p">>
HTTPS == <<"h", "t", "t", "p", "s">>
HTTPPrefix == HTTP \o <<":", "/", "/">>
HTTPSPrefix == HTTPS \o <<":", "/", "/">>

\* u := &URL{}: every field at its zero value.
ZeroURL ==
    [FullURL |-> Empty, Protocol |-> Empty, Subdomain |-> Empty, Hostname |-> Empty,
     Domain |-> Empty, TLD |-> Empty, Port |-> 0, Path |-> Empty, Query |-> << >>,
     Fragment |-> Empty, Username |-> Empty, Password |-> Empty, IPAddress |-> Empty]

\* ------------------------------------------------- the steps of FromString

\* The two protocol tests, one after the other: the second runs on what the
\* first left.
StripProtocol(url) ==
    LET isHTTP  == HasPrefix(url, HTTPPrefix)
        url1    == IF isHTTP THEN TrimPrefix(url, HTTPPrefix) ELSE url
        proto1  == IF isHTTP THEN HTTP ELSE Empty
        isHTTPS == HasPrefix(url1, HTTPSPrefix)
    IN  [Protocol |-> IF isHTTPS THEN HTTPS ELSE proto1,
         url      |-> IF isHTTPS THEN TrimPrefix(url1, HTTPSPrefix) ELSE url1]

\* The record's FullURL if it were set after the protocol was stripped.
SetFullURL_AfterStrip(url) == StripProtocol(url).url

\* u.FullURL = url, before any step changes url.
SetFullURL(url) == url

\* Cut the url at the first slash.
CutPath(url) ==
    LET i          == Index(url, "/")
        slashIndex == IF i = -1 THEN Len(url) ELSE i
    IN  [path |-> Slice(url, slashIndex, Len(url)), url |-> Slice(url, 0, slashIndex)]

\* Cut the url at the first @ and the credentials at their first colon.
CutCredentials(url) ==
    LET atIndex == Index(url, "@")
    IN  IF atIndex > -1
        THEN LET credentials == Slice(url, 0, atIndex)
                 colonIndex  == Index(credentials, ":")
             IN  [url      |-> Slice(url, atIndex + 1, Len(url)),
                  Username |-> IF colonIndex = -1 THEN credentials
                               ELSE Slice(credentials, 0, colonIndex),
                  Password |-> IF colonIndex = -1 THEN Empty
                               ELSE Slice(credentials, colonIndex + 1, Len(credentials))]
        ELSE [url |-> url, Username |-> Empty, Password |-> Empty]

\* Cut the url at the first colon; port keeps the colon.
CutPort(url) ==
    LET i          == Index(url, ":")
        colonIndex == IF i = -1 THEN Len(url) ELSE i
    IN  [port |-> Slice(url, colonIndex, Len(url)), url |-> Slice(url, 0, colonIndex)]

\* if port != "" { port = TrimPrefix(port, ":"); p, err := Atoi(port) ... }
ParsePort(port) ==
    IF port # Empty
    THEN LET a == Atoi(TrimPrefix(port, <<":">>))
         IN  [err |-> ~a.ok, Port |-> IF a.ok THEN a.val ELSE 0]
    ELSE [err |-> FALSE, Port |-> 0]

\* Cut the path at the first question mark; query keeps the question mark.
CutQuery(path) ==
    LET i                 == Index(path, "?")
        questionMarkIndex == IF i = -1 THEN Len(path) ELSE i
    IN  [query |-> Slice(path, questionMarkIndex, Len(path)),
         path  |-> Slice(path, 0, questionMarkIndex)]

\* CutFragment if the hash were left on the fragment.
CutFragment_KeepHash(query) ==
    LET i         == Index(query, "#")
        hashIndex == IF i = -1 THEN Len(query) ELSE i
    IN  [fragment |-> Slice(query, hashIndex, Len(query)),
         query    |-> Slice(query, 0, hashIndex)]

\* Cut the query at the first hash and remove the hash from the fragment.
CutFragment(query) ==
    LET i         == Index(query, "#")
        hashIndex == IF i = -1 THEN Len(query) ELSE i
    IN  [fragment |-> TrimPrefix(Slice(query, hashIndex, Len(query)), <<"#">>),
         query    |-> Slice(query, 0, hashIndex)]

RECURSIVE AppendQueries_Truncating(_)
\* AppendQueries if a part with two or more "=" were cut to its first two
\* pieces instead of dropped.
AppendQueries_Truncating(queryParts) ==
    IF Len(queryParts) = 0 THEN << >>
    ELSE LET queryPartParts == Split(Head(queryParts), "=")
         IN  (IF Len(queryPartParts) >= 2
              THEN <<[Key |-> queryPartParts[1], Value |-> queryPartParts[2]]>>
              ELSE << >>) \o AppendQueries_Truncating(Tail(queryParts))

\* The loop over queryParts: append a Query for each part that splits on "="
\* into exactly two pieces.
RECURSIVE AppendQueries(_)
AppendQueries(queryParts) ==
    IF Len(queryParts) = 0 THEN << >>
    ELSE LET queryPartParts == Split(Head(queryParts), "=")
         IN  (IF Len(queryPartParts) = 2
              THEN <<[Key |-> queryPartParts[1], Value |-> queryPartParts[2]]>>
              ELSE << >>) \o AppendQueries(Tail(queryParts))

\* if query != "" { query = TrimPrefix(query, "?"); split on "&"; ... }
ParseQuery(query) ==
    IF query # Empty
    THEN AppendQueries(Split(TrimPrefix(query, <<"?">>), "&"))
    ELSE << >>

\* SplitDomain if the suffix were trimmed without its leading dot.
SplitDomain_NoDot(url, tldPlusOne) ==
    LET tldPlusOneParts == Split(tldPlusOne, ".")
        tld             == Join(Tail(tldPlusOneParts), ".")
        trimmed         == TrimSuffix(url, tld)
        domainParts     == Split(trimmed, ".")
    IN  [Hostname  |-> tldPlusOne,
         TLD       |-> tld,
         Domain    |-> domainParts[Len(domainParts)],
         Subdomain |-> Join(SubSeq(domainParts, 1, Len(domainParts) - 1), ".")]

\* Hostname, TLD, Domain and Subdomain from the host and the lookup's result
\* (u.TLD is set only when tld is not empty, which leaves it empty otherwise).
SplitDomain(url, tldPlusOne) ==
    LET tldPlusOneParts == Split(tldPlusOne, ".")
        tld             == Join(Tail(tldPlusOneParts), ".")
        trimmed         == TrimSuffix(url, <<".">> \o tld)
        domainParts     == Split(trimmed, ".")
    IN  [Hostname  |-> tldPlusOne,
         TLD       |-> tld,
         Domain    |-> domainParts[Len(domainParts)],
         Subdomain |-> Join(SubSeq(domainParts, 1, Len(domainParts) - 1), ".")]

\* FromString up to the suffix lookup: the record filled so far, the locals
\* the later steps and the callers of the lookup see, and whether Atoi failed.
Parse(url) ==
    LET proto == StripProtocol(url)
        cutP  == CutPath(proto.url)
        cred  == CutCredentials(cutP.url)
        cutC  == CutPort(cred.url)
        port  == ParsePort(cutC.port)
        cutQ  == CutQuery(cutP.path)
        cutF  == CutFragment(cutQ.query)
    IN  [portErr |-> port.err,
         u |-> [ZeroURL EXCEPT !.FullURL = SetFullURL(url),
                               !.Protocol = proto.Protocol,
                               !.Username = cred.Username,
                               !.Password = cred.Password,
                               !.Port = port.Port,
                               !.Path = cutQ.path,
                               !.Fragment = cutF.fragment,
                               !.Query = ParseQuery(cutF.query)],
         locals |-> [stripped  |-> proto.url,
                     authority |-> cutP.url,
                     tail      |-> cutP.path,
                     hostport  |-> cred.url,
                     port      |-> cutC.port,
                     host      |-> cutC.url]]

\* u with the four fields the suffix split sets.
WithDomain(u, url, tldPlusOne) ==
    LET d == SplitDomain(url, tldPlusOne)
    IN  [u EXCEPT !.Hostname = d.Hostname, !.TLD = d.TLD,
                  !.Domain = d.Domain, !.Subdomain = d.Subdomain]

\* ------------------------------------------------- external collaborators

\* Whether a dot-separated name has an empty label.
HasEmptyLabel(domain) ==
    \/ HasPrefix(domain, <<".">>)
    \/ HasSuffix(domain, <<".">>)
    \/ \E i \in 1..(Len(domain) - 1) : domain[i] = "." /\ domain[i + 1] = "."

\* The last k labels of a name, dot-joined.
LastLabels(domain, k) ==
    LET labels == Split(domain, ".")
    IN  Join(SubSeq(labels, Len(labels) - k + 1, Len(labels)), ".")

LookupError == [ok |-> FALSE, res |-> Empty]

\* What publicsuffix.EffectiveTLDPlusOne(domain) can return, over every
\* suffix list: an error for a name with an empty label, and otherwise an
\* error (the name is itself a public suffix) or the name's last k labels,
\* k >= 2 (a public suffix of k - 1 labels plus one label).
EffectiveTLDPlusOne(domain) ==
    IF HasEmptyLabel(domain) THEN {LookupError}
    ELSE {LookupError} \cup
         {[ok |-> TRUE, res |-> LastLabels(domain, k)] :
             k \in 2..Len(Split(domain, "."))}

\* The address net.LookupIP finds first, as text.
SomeIP == <<"1", "2", "7", ".", "0", ".", "0", ".", "1">>

\* What net.LookupIP(host) can return: an error or one address at least.
LookupIP(host) == {[ok |-> FALSE, ip |-> Empty], [ok |-> TRUE, ip |-> SomeIP]}

\* Resolve if the lookup's error were dropped.
Resolve_IgnoreError(u, looked) ==
    [u |-> <<[u EXCEPT !.IPAddress = looked.ip]>>, err |-> "none"]

\* ip, err := net.LookupIP(u.Hostname); if err != nil { return nil, err };
\* u.IPAddress = ip[0].String(); return u, nil
Resolve(u, looked) ==
    IF ~looked.ok THEN [u |-> << >>, err |-> "resolve"]
    ELSE [u |-> <<[u EXCEPT !.IPAddress = looked.ip]>>, err |-> "none"]

\* ------------------------------------------------------------------ inputs

RECURSIVE PrefixChains(_)
\* Every chain of at most n protocol prefixes.
PrefixChains(n) ==
    IF n = 0 THEN {Empty}
    ELSE {Empty} \cup {p \o q : p \in {HTTPPrefix, HTTPSPrefix}, q \in PrefixChains(n - 1)}

\* Credentials, with their closing @.
CredentialTexts ==
    {<< >>,
     <<"u", "@">>,
     <<"u", ":", "p", "@">>,
     <<"u", ":", "@">>,
     <<":", "p", "@">>,
     <<"u", "@", "v", "@">>,
     <<"u", ":", "p", ":", "q", "@">>}

HostTexts ==
    {<<"a", ".", "c", "o", "m">>,
     <<"w", ".", "a", ".", "c", "o", "m">>,
     <<"v", ".", "w", ".", "a", ".", "c", "o", ".", "u", "k">>,
     <<"c", "o", "m">>,
     << >>,
     <<"a", ".", ".", "c", "o", "m">>}

\* Port texts, with their opening colon.
PortTexts ==
    {<< >>,
     <<":">>,
     <<":", "8", "0">>,
     <<":", "8", "x">>,
     <<":", "-", "1">>,
     <<":", "+", "8">>,
     <<":", "8", ":", "0">>}

\* The characters of the enumerated tails.
TailChars == {"p", "/", "?", "#", "=", "&", "@"}

\* "" and "/" followed by every text of at most MaxTailLen tail characters.
TailTexts ==
    {Empty} \cup {<<"/">> \o t : t \in UNION {[1..k -> TailChars] : k \in 0..MaxTailLen}}

\* The characters of the enumerated authorities.
AuthorityChars == {"a", "8", ".", ":", "@"}

\* Every text of at most MaxAuthorityLen authority characters.
EnumeratedAuthorities == UNION {[1..k -> AuthorityChars] : k \in 0..MaxAuthorityLen}

\* Two tails for the inputs that vary the authority.
FewTails ==
    {<< >>,
     <<"/", "p", ":", "@", "/", "q", "?", "a", "=", "1", "&", "b", "=", "2", "#", "f", ":", "@">>}

\* Two authorities for the inputs that vary the tail.
FewAuthorities ==
    {<<"a", ".", "c", "o", "m">>,
     <<"u", ":", "p", "@", "w", ".", "a", ".", "c", "o", "m", ":", "8", "0">>}

\* The inputs of src/main_test.go, the README's input, and the query string
\* "a=1&a=2&bad&c=3=3".
READMEInput ==
    <<"h", "t", "t", "p", ":", "/", "/", "w", "w", "w", ".", "e", "x", "a", "m", "p", "l", "e", ".", "c", "o", "m", ":", "8", "0", "8", "0", "/", "p", "a", "t", "h", "/", "t", "o", "/", "f", "i", "l", "e", ".", "h", "t", "m", "l", "?", "q", "u", "e", "r", "y", "=", "s", "t", "r", "i", "n", "g", "#", "f", "r", "a", "g", "m", "e", "n", "t">>

QueryInput ==
    <<"e", "x", "a", "m", "p", "l", "e", ".", "c", "o", "m", "/", "?", "a", "=", "1", "&", "a", "=", "2", "&", "b", "a", "d", "&", "c", "=", "3", "=", "3">>

Fixtures ==
    {<<"h", "t", "t", "p", "s", ":", "/", "/", "w", "w", "w", ".", "e", "x", "a", "m", "p", "l", "e", ".", "c", "o", "m", ":", "4", "4", "3", "/", "s", "e", "a", "r", "c", "h", "?", "q", "=", "h", "e", "l", "l", "o", "+", "w", "o", "r", "l", "d", "#", "t", "e", "s", "t">>,
     <<"h", "t", "t", "p", "s", ":", "/", "/", "w", "w", "w", ".", "e", "x", "a", "m", "p", "l", "e", ".", "c", "o", ".", "u", "k", ":", "4", "4", "3", "/", "s", "e", "a", "r", "c", "h", "?", "q", "=", "h", "e", "l", "l", "o", "+", "w", "o", "r", "l", "d", "#", "t", "e", "s", "t">>,
     <<"h", "t", "t", "p", "s", ":", "/", "/", "e", "x", "a", "m", "p", "l", "e", ".", "c", "o", "m", ":", "4", "4", "3", "/", "s", "e", "a", "r", "c", "h", "?", "q", "=", "h", "e", "l", "l", "o", "+", "w", "o", "r", "l", "d", "#", "t", "e", "s", "t">>,
     <<"h", "t", "t", "p", "s", ":", "/", "/", "e", "x", "a", "m", "p", "l", "e", ".", "c", "o", "m">>,
     <<"e", "x", "a", "m", "p", "l", "e", ".", "c", "o", "m">>,
     <<"u", "s", "e", "r", ":", "p", "a", "s", "s", "@", "e", "x", "a", "m", "p", "l", "e", ".", "c", "o", "m">>,
     <<"u", "s", "e", "r", "@", "e", "x", "a", "m", "p", "l", "e", ".", "c", "o", "m">>,
     <<"u", "s", "e", "r", "@", "e", "x", "a", "m", "p", "l", "e", ".", "c", "o", "m", ":", "8", "0">>}
    \cup {READMEInput, QueryInput}

Inputs ==
    {p \o c \o h \o n \o t :
        p \in PrefixChains(MaxPrefixes), c \in CredentialTexts, h \in HostTexts,
        n \in PortTexts, t \in FewTails}
    \cup {p \o a \o t : p \in {Empty, HTTPSPrefix}, a \in FewAuthorities, t \in TailTexts}
    \cup EnumeratedAuthorities
    \cup Fixtures

\* ------------------------------------------------------------ state machine

VARIABLES
    input,    \* the argument url of the call
    pc,       \* "call" before the call, "done" after it returned
    variant,  \* which FromString ran: "main" (src/main.go) or "noip" (part_000)
    locals,   \* the locals url, path and port as the steps left them
    lookup,   \* the call of publicsuffix.EffectiveTLDPlusOne and its result
    dns,      \* the call of net.LookupIP and whether it succeeded
    ret       \* the returned (*URL, error): u is << >> for nil

vars == <<input, pc, variant, locals, lookup, dns, ret>>

NoLocals ==
    [stripped |-> Empty, authority |-> Empty, tail |-> Empty, hostport |-> Empty,
     port |-> Empty, host |-> Empty]

Init ==
    /\ input \in Inputs
    /\ pc = "call"
    /\ variant = "none"
    /\ locals = NoLocals
    /\ lookup = [called |-> FALSE, ok |-> FALSE, res |-> Empty]
    /\ dns = [called |-> FALSE, ok |-> FALSE]
    /\ ret = [u |-> << >>, err |-> "none"]

\* FromString of src/main.go.
FromString ==
    /\ pc = "call"
    /\ pc' = "done"
    /\ variant' = "main"
    /\ UNCHANGED input
    /\ LET f == Parse(input)
       IN  /\ locals' = f.locals
           /\ IF f.portErr
              THEN /\ ret' = [u |-> << >>, err |-> "port"]
                   /\ UNCHANGED <<lookup, dns>>
              ELSE \E r \in EffectiveTLDPlusOne(f.locals.host) :
                     /\ lookup' = [called |-> TRUE, ok |-> r.ok, res |-> r.res]
                     /\ IF ~r.ok
                        THEN /\ ret' = [u |-> << >>, err |-> "suffix"]
                             /\ UNCHANGED dns
                        ELSE \E a \in LookupIP(r.res) :
                               /\ dns' = [called |-> TRUE, ok |-> a.ok]
                               /\ ret' = Resolve(WithDomain(f.u, f.locals.host, r.res), a)

\* FromString of src/unnamed/part_000: the same steps, no Hostname field and
\* no address lookup.
FromStringNoIP ==
    /\ pc = "call"
    /\ pc' = "done"
    /\ variant' = "noip"
    /\ UNCHANGED <<input, dns>>
    /\ LET f == Parse(input)
       IN  /\ locals' = f.locals
           /\ IF f.portErr
              THEN /\ ret' = [u |-> << >>, err |-> "port"]
                   /\ UNCHANGED lookup
              ELSE \E r \in EffectiveTLDPlusOne(f.locals.host) :
                     /\ lookup' = [called |-> TRUE, ok |-> r.ok, res |-> r.res]
                     /\ ret' = IF ~r.ok THEN [u |-> << >>, err |-> "suffix"]
                               ELSE [u |-> <<[WithDomain(f.u, f.locals.host, r.res)
                                               EXCEPT !.Hostname = Empty]>>,
                                     err |-> "none"]

Next == FromString \/ FromStringNoIP

Spec == Init /\ [][Next]_vars

\* --------------------------------------------- the vocabulary of the claims

\* Whether text s holds the character c.
Has(s, c) == \E i \in DOMAIN s : s[i] = c

RECURSIVE BeforeFirst(_, _)
\* The text of s before its first c (all of s when it holds none).
BeforeFirst(s, c) ==
    IF s = Empty \/ Head(s) = c THEN Empty
    ELSE <<Head(s)>> \o BeforeFirst(Tail(s), c)

RECURSIVE AfterFirst(_, _)
\* The text of s after its first c (empty when it holds none).
AfterFirst(s, c) ==
    IF s = Empty THEN Empty
    ELSE IF Head(s) = c THEN Tail(s)
    ELSE AfterFirst(Tail(s), c)

\* How many times c stands in s.
CountOf(s, c) == Cardinality({i \in DOMAIN s : s[i] = c})

RECURSIVE PartsOf(_, _)
\* The parts of s between its separators c.
PartsOf(s, c) ==
    IF Has(s, c) THEN <<BeforeFirst(s, c)>> \o PartsOf(AfterFirst(s, c), c)
    ELSE <<s>>

RECURSIVE DotJoined(_)
\* The texts of a sequence, joined with dots.
DotJoined(parts) ==
    IF parts = << >> THEN Empty
    ELSE IF Len(parts) = 1 THEN parts[1]
    ELSE parts[1] \o <<".">> \o DotJoined(Tail(parts))

DigitChars == {"0", "1", "2", "3", "4", "5", "6", "7", "8", "9"}

\* Whether s is a base-10 integer: an optional sign and at least one digit.
IsDecimalInteger(s) ==
    LET d == IF s # Empty /\ Head(s) \in {"+", "-"} THEN Tail(s) ELSE s
    IN  d # Empty /\ \A i \in DOMAIN d : d[i] \in DigitChars

RECURSIVE DigitsValue(_, _)
DigitsValue(d, acc) ==
    IF d = Empty THEN acc
    ELSE DigitsValue(Tail(d), 10 * acc + (CHOOSE n \in 0..9 : ToString(n) = Head(d)))

\* The value of a base-10 integer text.
IntegerOf(s) ==
    IF Head(s) = "-" THEN 0 - DigitsValue(Tail(s), 0)
    ELSE IF Head(s) = "+" THEN DigitsValue(Tail(s), 0)
    ELSE DigitsValue(s, 0)

\* The call returned.
Done == pc = "done"

\* The call returned a record and no error.
Succeeded == pc = "done" /\ ret.err = "none" /\ Len(ret.u) = 1

\* The returned record.
U == ret.u[1]

\* The text after the first colon of the host:port string is no integer.
PortTextFails ==
    Has(locals.hostport, ":") /\ ~IsDecimalInteger(AfterFirst(locals.hostport, ":"))

LookupFailed == lookup.called /\ ~lookup.ok

ResolutionFailed == dns.called /\ ~dns.ok

\* ------------------------------------------------------------------ claims

\* C1 as stated: FromString of src/main.go returns an error exactly when the
\* port text fails integer parsing or the suffix lookup fails, whatever the
\* resolver returns.
C1_TwoErrorConditions ==
    (Done /\ variant = "main") =>
        ((ret.err # "none") <=> (PortTextFails \/ LookupFailed))

\* C1, amended: FromString of src/main.go returns an error exactly when the
\* port text fails integer parsing, the suffix lookup fails, or the resolver
\* fails on the registrable hostname; the FromString without the address
\* lookup (part_000) returns an error exactly under the first two. A record
\* is returned exactly when no error is.
C1_ThreeErrorConditions ==
    Done =>
        /\ variant = "main" =>
             ((ret.err # "none") <=> (PortTextFails \/ LookupFailed \/ ResolutionFailed))
        /\ variant = "noip" =>
             ((ret.err # "none") <=> (PortTextFails \/ LookupFailed))
        /\ (ret.err # "none") <=> (ret.u = << >>)
        /\ ret.err = "port" <=> PortTextFails
        /\ ret.err = "suffix" <=> (~PortTextFails /\ LookupFailed)
        /\ ret.err = "resolve" <=> ResolutionFailed

\* C1's case: the port parsed, the suffix lookup succeeded, the resolver
\* failed, and FromString of src/main.go returned the resolver's error.
C1_Witness ==
    /\ Done /\ variant = "main"
    /\ ~PortTextFails /\ lookup.called /\ lookup.ok
    /\ ResolutionFailed /\ ret.err = "resolve" /\ ret.u = << >>

\* C2: on success, with host the text handed to the suffix lookup and R the
\* lookup's result: Hostname = R, Domain is R's first label, TLD is R's other
\* labels dot-joined, Domain.TLD = R, Subdomain is the labels of host before
\* R dot-joined (empty when host = R), and the non-empty ones of Subdomain,
\* Domain and TLD dot-joined give host back.
C2_SuffixSplit ==
    Succeeded =>
        LET host == locals.host
            R    == lookup.res
            hl   == PartsOf(host, ".")
            rl   == PartsOf(R, ".")
        IN  /\ Len(rl) >= 2 /\ Len(rl) <= Len(hl)
            /\ variant = "main" => U.Hostname = R
            /\ U.Domain = rl[1]
            /\ U.TLD = DotJoined(Tail(rl))
            /\ U.Domain \o <<".">> \o U.TLD = R
            /\ U.Subdomain = DotJoined(SubSeq(hl, 1, Len(hl) - Len(rl)))
            /\ (host = R => U.Subdomain = Empty)
            /\ DotJoined(SelectSeq(<<U.Subdomain, U.Domain, U.TLD>>,
                                   LAMBDA x : x # Empty)) = host

\* C2's case: a host of four labels split under a two-label suffix.
C2_Witness ==
    /\ Succeeded /\ variant = "main"
    /\ locals.host = <<"v", ".", "w", ".", "a", ".", "c", "o", ".", "u", "k">>
    /\ U.Subdomain = <<"v", ".", "w">>
    /\ U.Domain = <<"a">>
    /\ U.TLD = <<"c", "o", ".", "u", "k">>

\* C7: on success the record's FullURL is the input, character for
\* character.
C7_RoundTrip == Succeeded => U.FullURL = input

\* C7's case: a successful call whose steps stripped a protocol prefix,
\* credentials, a port and a path from the working copy.
C7_Witness ==
    /\ Succeeded /\ variant = "main"
    /\ U.FullURL = input
    /\ U.Protocol # Empty /\ U.Username # Empty /\ U.Port # 0 /\ U.Path # Empty
    /\ locals.host # input

\* The input with one recognized protocol prefix removed, if it starts with
\* one.
WithoutProtocolPrefix(x) ==
    IF HasPrefix(x, HTTPPrefix) THEN SubSeq(x, Len(HTTPPrefix) + 1, Len(x))
    ELSE IF HasPrefix(x, HTTPSPrefix) THEN SubSeq(x, Len(HTTPSPrefix) + 1, Len(x))
    ELSE x

\* The text from the first c of s on, c included (empty when s holds none).
FromFirst(s, c) == IF Has(s, c) THEN <<c>> \o AfterFirst(s, c) ELSE Empty

\* C3 as stated: on success, when the path-bearing tail holds a '#',
\* Fragment is everything after the tail's first '#', with or without a '?'
\* in the tail and wherever it stands; when the tail holds none, Fragment
\* is empty.
C3_FragmentAfterHash ==
    (Succeeded /\ variant = "main") =>
        IF Has(locals.tail, "#")
        THEN U.Fragment = AfterFirst(locals.tail, "#")
        ELSE U.Fragment = Empty

\* The query string of a tail: the text between its first '?' and the first
\* following '#' (or the end).
QueryStringOf(tail) == BeforeFirst(AfterFirst(tail, "?"), "#")

RECURSIVE PairsOf(_)
\* One (key, value) pair, in order, for each part that holds exactly one '='.
PairsOf(parts) ==
    IF parts = << >> THEN << >>
    ELSE (IF CountOf(Head(parts), "=") = 1
          THEN <<[Key   |-> BeforeFirst(Head(parts), "="),
                  Value |-> AfterFirst(Head(parts), "=")]>>
          ELSE << >>) \o PairsOf(Tail(parts))

\* C4: on success, Query is, in order, one (key, value) pair for each
\* '&'-separated part of the query string that holds exactly one '='; parts
\* with no '=' or with two or more are dropped, duplicate keys are kept.
C4_QueryPairs ==
    Succeeded => U.Query = PairsOf(PartsOf(QueryStringOf(locals.tail), "&"))

\* C4's case: the query string "a=1&a=2&bad&c=3=3" gives [(a,1),(a,2)].
C4_Witness ==
    /\ Succeeded /\ variant = "main"
    /\ input = QueryInput
    /\ QueryStringOf(locals.tail) = <<"a", "=", "1", "&", "a", "=", "2", "&", "b", "a", "d", "&", "c", "=", "3", "=", "3">>
    /\ U.Query = <<[Key |-> <<"a">>, Value |-> <<"1">>],
                   [Key |-> <<"a">>, Value |-> <<"2">>]>>

\* C5 as stated, on the host:port string (the authority after credentials
\* are removed): the call fails at the port stage, returning no record, if
\* and only if the string holds a ':' and the text after its first ':' is
\* non-empty and no base-10 integer; with no ':' Port is 0 and the host is
\* the whole string; with an integer after the first ':' Port is that
\* integer and the host is the text before the ':'.
C5_PortStage ==
    (Done /\ variant = "main") =>
        LET hp       == locals.hostport
            portText == AfterFirst(hp, ":")
        IN  /\ (ret.err = "port" /\ ret.u = << >>) <=>
                  (Has(hp, ":") /\ portText # Empty /\ ~IsDecimalInteger(portText))
            /\ ~Has(hp, ":") =>
                  /\ locals.host = hp
                  /\ Succeeded => U.Port = 0
            /\ (Has(hp, ":") /\ IsDecimalInteger(portText)) =>
                  /\ locals.host = BeforeFirst(hp, ":")
                  /\ Succeeded => U.Port = IntegerOf(portText)

ExampleCom == <<"e", "x", "a", "m", "p", "l", "e", ".", "c", "o", "m">>

\* The README's example ran: its input, the suffix lookup returning
\* "example.com", the resolver succeeding.
READMECase ==
    /\ Done /\ variant = "main" /\ input = READMEInput
    /\ lookup.called /\ lookup.ok /\ lookup.res = ExampleCom
    /\ dns.called /\ dns.ok

\* The fields the README prints, but for Path.
READMEFields ==
    /\ Succeeded
    /\ U.Protocol = HTTP
    /\ U.Subdomain = <<"w", "w", "w">>
    /\ U.Domain = <<"e", "x", "a", "m", "p", "l", "e">>
    /\ U.TLD = <<"c", "o", "m">>
    /\ U.Port = 8080
    /\ U.Query = <<[Key |-> <<"q", "u", "e", "r", "y">>, Value |-> <<"s", "t", "r", "i", "n", "g">>]>>
    /\ U.Fragment = <<"f", "r", "a", "g", "m", "e", "n", "t">>

C8_OneProtocolPrefix ==
    (Succeeded /\ variant = "main") =>
        /\ U.Protocol = (IF HasPrefix(input, HTTPPrefix) THEN HTTP
                         ELSE IF HasPrefix(input, HTTPSPrefix) THEN HTTPS
                         ELSE Empty)
        /\ locals.stripped = WithoutProtocolPrefix(input)
        /\ locals.authority \o locals.tail = WithoutProtocolPrefix(input)

\* C9 as stated: on success, with the authority the text after the protocol
\* prefix and before the first '/': if it holds '@', Username and Password
\* are the text before its first '@' cut at that text's first ':', and the
\* host:port string is everything after the first '@'; if it holds none,
\* Username and Password are empty.
C9_Credentials ==
    (Succeeded /\ variant = "main") =>
        LET authority == BeforeFirst(WithoutProtocolPrefix(input), "/")
            c         == BeforeFirst(authority, "@")
        IN  IF Has(authority, "@")
            THEN /\ U.Username = BeforeFirst(c, ":")
                 /\ U.Password = AfterFirst(c, ":")
                 /\ locals.hostport = AfterFirst(authority, "@")
            ELSE /\ U.Username = Empty
                 /\ U.Password = Empty

\* C10 as stated: on success Path is the part of the input after the
\* protocol prefix from the first '/' on, up to the first following '?';
\* it is empty exactly when there is no '/' after the protocol prefix,
\* begins with '/' otherwise, and never holds '?'.
C10_Path ==
    (Succeeded /\ variant = "main") =>
        LET rest == WithoutProtocolPrefix(input)
        IN  /\ U.Path = BeforeFirst(FromFirst(rest, "/"), "?")
            /\ (U.Path = Empty) <=> ~Has(rest, "/")
            /\ U.Path # Empty => Head(U.Path) = "/"
            /\ ~Has(U.Path, "?")

\* --------------------------------------------- how far the failures reach

\* FromString stripped one protocol prefix at most.
StrippedOnce == locals.stripped = WithoutProtocolPrefix(input)

\* C3 holds of every tail whose first '#' follows a '?'.
C3_HoldsAfterQuestionMark ==
    (Has(locals.tail, "?") /\ ~Has(BeforeFirst(locals.tail, "?"), "#"))
        => C3_FragmentAfterHash

\* C5 holds unless the host:port string holds a ':' with nothing after the
\* first one.
C5_HoldsOfNonEmptyPortText ==
    ~(Has(locals.hostport, ":") /\ AfterFirst(locals.hostport, ":") = Empty)
        => C5_PortStage

\* C8, C9 and C10 hold of every input that does not start with
\* "http://https://".
C8_HoldsOfOtherInputs ==
    (Done /\ ~HasPrefix(input, HTTPPrefix \o HTTPSPrefix))
        => (StrippedOnce /\ C8_OneProtocolPrefix /\ C9_Credentials /\ C10_Path)

====
